---- MODULE Spec2Model ----
(***************************************************************************)
(* TickerTrail backend: the PriceScraper subscription / fan-out engine of  *)
(* src/backend/src/price-scraper.ts, modelled at the granularity of the    *)
(* JavaScript event loop: every action is the code that runs between two   *)
(* suspension points (await) of a handler, or a timer callback. The HTTP    *)
(* front of src/backend/src/server.ts (SSE clients, POST /subscribe and     *)
(* POST /unsubscribe) is modelled on top of it in the same way.             *)
(*                                                                         *)
(* Strings are sequences of one-character strings, so that toUpperCase,    *)
(* trim, the comma stripping and the decimal shape test are computed.      *)
(***************************************************************************)
EXTENDS Naturals, Sequences, FiniteSets

----------------------------------------------------------------------------
(* Bounds of the model                                                      *)

\* number of startScrapingTicker invocations (source opens) explored
MaxOpens == 2

\* number of poll-tick callbacks that may be suspended in extractPrice at once
MaxTicks == 2

\* number of SSE connections the server accepts (values of clientIdCounter)
MaxClients == 3

----------------------------------------------------------------------------
(* Strings                                                                  *)

LowerChars == <<"a","b","c","d","e","f","g","h","i","j","k","l","m",
                "n","o","p","q","r","s","t","u","v","w","x","y","z">>

UpperChars == <<"A","B","C","D","E","F","G","H","I","J","K","L","M",
                "N","O","P","Q","R","S","T","U","V","W","X","Y","Z">>

Digits == {"0","1","2","3","4","5","6","7","8","9"}

UpperChar(c) ==
  IF \E i \in 1..Len(LowerChars) : LowerChars[i] = c
    THEN UpperChars[CHOOSE i \in 1..Len(LowerChars) : LowerChars[i] = c]
    ELSE c

\* a wrong conversion: the string is taken as the caller spelled it
asSpelled(s) == s

\* String.prototype.toUpperCase
toUpperCase(s) == [i \in 1..Len(s) |-> UpperChar(s[i])]

\* the template literal `${exchange}:${ticker}`
MakeKey(exchange, ticker) == exchange \o <<":">> \o ticker

\* the canonical key addTicker / removeTicker compute from their arguments
KeyOf(ticker, exchange) == MakeKey(toUpperCase(exchange), toUpperCase(ticker))

\* String.prototype.trim
RECURSIVE TrimLeft(_)
TrimLeft(s) == IF s # <<>> /\ Head(s) = " " THEN TrimLeft(Tail(s)) ELSE s

RECURSIVE TrimRight(_)
TrimRight(s) ==
  IF s # <<>> /\ s[Len(s)] = " " THEN TrimRight(SubSeq(s, 1, Len(s) - 1)) ELSE s

Trim(s) == TrimRight(TrimLeft(s))

\* .replace(/,/g, '')
StripCommas(s) == SelectSeq(s, LAMBDA c : c # ",")

AllDigits(s) == s # <<>> /\ \A i \in 1..Len(s) : s[i] \in Digits

\* /^\d+(\.\d+)?$/.test(s)
IsDecimal(s) ==
  \/ AllDigits(s)
  \/ \E i \in 1..Len(s) :
       /\ s[i] = "."
       /\ AllDigits(SubSeq(s, 1, i - 1))
       /\ AllDigits(SubSeq(s, i + 1, Len(s)))

\* null / undefined of the price type; a price string is never empty
Null == <<>>

----------------------------------------------------------------------------
(* The page the source serves: the elements the extractor looks at          *)

NoElement == [present |-> FALSE, text |-> <<>>]

Element(t) == [present |-> TRUE, text |-> t]

\* snapshots of the document a read may find (last: span.js-symbol-last,
\* fallback: the three fallback selectors in order)
DomStates ==
  { [last |-> Element(<<" ","1",",","0"," ">>),
     fallback |-> <<NoElement, NoElement, NoElement>>],
    [last |-> Element(<<"1","1">>),
     fallback |-> <<NoElement, NoElement, NoElement>>],
    [last |-> NoElement,
     fallback |-> <<NoElement, Element(<<"n","/","a">>), Element(<<"1","0">>)>>],
    [last |-> Element(<<"1",".">>),
     fallback |-> <<Element(<<>>), NoElement, NoElement>>] }

\* the first page.evaluate of extractPrice
PrimaryText(dom) ==
  IF ~dom.last.present THEN Null ELSE StripCommas(Trim(dom.last.text))

\* the second page.evaluate of extractPrice: first selector with a valid text
FallbackText(dom) ==
  LET ok(i) == /\ dom.fallback[i].present
               /\ IsDecimal(StripCommas(Trim(dom.fallback[i].text)))
  IN  IF \E i \in 1..3 : ok(i)
        THEN LET j == CHOOSE i \in 1..3 : ok(i) /\ \A h \in 1..(i - 1) : ~ok(h)
             IN  StripCommas(Trim(dom.fallback[j].text))
        ELSE Null

\* what the two page.evaluate calls of extractPrice yield on an open page
ExtractedText(dom) ==
  IF PrimaryText(dom) # Null /\ IsDecimal(PrimaryText(dom))
    THEN PrimaryText(dom)
    ELSE FallbackText(dom)

\* ExtractedText, tabulated over the snapshots
ReadOf == [dom \in DomStates |-> ExtractedText(dom)]

\* extractPrice(page, key): Null when the page is closed (evaluate throws and
\* the catch returns null) or when no selector yields a decimal number
extractPrice(pageIsOpen, dom) == IF ~pageIsOpen THEN Null ELSE ReadOf[dom]

----------------------------------------------------------------------------
(* Inputs                                                                   *)

\* (ticker, exchange) arguments as callers may pass them: two spellings of
\* one symbol, and a second symbol
Requests ==
  { [ticker |-> <<"b","t">>, exchange |-> <<"X">>],
    [ticker |-> <<"B","T">>, exchange |-> <<"x">>],
    [ticker |-> <<"e","t">>, exchange |-> <<"x">>] }

\* listener identities (callback functions)
Callbacks == {"L1", "L2"}

Keys == { KeyOf(r.ticker, r.exchange) : r \in Requests }

\* the key each request names
RequestKey == [r \in Requests |-> KeyOf(r.ticker, r.exchange)]

\* toUpperCase, tabulated over the argument strings of the requests
UpperCased ==
  LET args == {r.ticker : r \in Requests} \cup {r.exchange : r \in Requests}
  IN  [s \in args \cup {toUpperCase(a) : a \in args} |-> toUpperCase(s)]

----------------------------------------------------------------------------
(* Maps (JavaScript Map) as functions with a varying domain                 *)

MapHas(m, k) == k \in DOMAIN m

MapSet(m, k, v) == [x \in (DOMAIN m) \cup {k} |-> IF x = k THEN v ELSE m[x]]

\* a wrong delete: the whole map is cleared
MapClear(m, k) == [x \in {} |-> m[x]]

MapDelete(m, k) == [x \in (DOMAIN m) \ {k} |-> m[x]]

EmptyMap == [x \in {} |-> {}]

----------------------------------------------------------------------------
(* State                                                                    *)

VARIABLES
  context,      \* this.context: "null" before initialize(), then "open",
                \* "closed" once cleanup() has closed it
  listeners,    \* this.listeners: key -> set of callbacks
  pages,        \* this.pages: key -> page
  prices,       \* this.prices: key -> price string
  intervalIds,  \* this.intervalIds: key -> interval timer
  openPages,    \* the pages created by newPage() and not yet closed
  activeTimers, \* the interval timers created and not yet cleared
  opening,      \* addTicker calls suspended inside startScrapingTicker
  stopping,     \* removeTicker calls suspended at page.close()
  ticks,        \* poll-tick callbacks suspended in extractPrice, in firing order
  nextId,       \* identity of the next page object
  purged,       \* keys torn down by a completed removeTicker and not re-added
  cleanup,      \* the cleanup() call: where it is and the pages it has visited
  delivered,    \* key -> callback -> the last price the callback was invoked
                \* with for the key since it was registered (observation only)
  ev,           \* what the last step did (observation of calls and returns)
  server,       \* the module state of server.ts: clients, clientIdCounter,
                \* tickerCallbacks, and the observation of what it wrote
  source        \* key -> the price the quoted page of the key shows; only the
                \* specification that follows the page constrains reads by it

vars == <<context, listeners, pages, prices, intervalIds, openPages,
          activeTimers, opening, stopping, ticks, nextId, purged, cleanup,
          delivered, ev, server, source>>

\* the variables of the PriceScraper object and its observation
scraper == <<context, listeners, pages, prices, intervalIds, openPages,
             activeTimers, opening, stopping, ticks, nextId, purged, cleanup,
             delivered, ev>>

\* a page object; the interval timer created for it is named by the same
\* record, since its callback closes over exactly (page, key)
Page(id, key) == [id |-> id, key |-> key]

\* { success: true }
Success == [settled |-> "resolved", success |-> TRUE, error |-> <<>>]

\* { success: false, error }
Failure(msg) == [settled |-> "resolved", success |-> FALSE, error |-> msg]

\* the promise rejects (an exception escapes the handler)
Rejected == [settled |-> "rejected", success |-> FALSE, error |-> <<>>]

InvalidTickerError(upperTicker) ==
  upperTicker \o <<" is not a valid ticker or price data is not available">>

VerifyError(upperTicker) == <<"Failed to verify ticker ">> \o upperTicker

\* a key is OPEN when the maps hold a session for it
IsOpen(key) ==
  /\ MapHas(pages, key) /\ pages[key] \in openPages
  /\ MapHas(intervalIds, key) /\ intervalIds[key] \in activeTimers

\* getPrice(key)
getPrice(key) == IF MapHas(prices, key) THEN prices[key] ELSE Null

\* a callback is caller code and may throw when it is invoked: the possible
\* sets of throwing callbacks among those about to be invoked. mayThrow tells
\* whether the callers' callbacks are of the kind that can throw.
Throwing(callbacks, mayThrow) == IF mayThrow THEN SUBSET callbacks ELSE {{}}

\* this.listeners.get(key), or no callbacks
Registered(key) == IF MapHas(listeners, key) THEN listeners[key] ELSE {}

\* a wrong fan-out without the try/catch: the loop ends at a callback that
\* throws, and the callbacks that do not throw are not reached
notifyListenersUnguarded(key, thrown) ==
  [cb \in Callbacks |->
     IF cb \in Registered(key)
        /\ (thrown \cap Registered(key) = {} \/ cb \in thrown)
       THEN 1 ELSE 0]

\* notifyListeners(key, price): how many times each callback is invoked.
\* `thrown` are the callbacks that throw when invoked; the try/catch around
\* each call swallows the exception, so the loop goes on to the next callback.
notifyListeners(key, thrown) ==
  [cb \in Callbacks |-> IF cb \in Registered(key) THEN 1 ELSE 0]

NoInvocation == [cb \in Callbacks |-> 0]

\* a wrong replay: the callback is never handed the cached price
ReplayNever(callback, currentPrice) == NoInvocation

\* callback(currentPrice) in addTicker: invoked once when a price is cached
Replay(callback, currentPrice) ==
  [cb \in Callbacks |-> IF cb = callback /\ currentPrice # Null THEN 1 ELSE 0]

\* the callbacks invoked in a step have now last seen `price` for `key`
Deliver(key, invoked, price) ==
  [delivered EXCEPT ![key] =
     [cb \in Callbacks |-> IF invoked[cb] > 0 THEN price ELSE @[cb]]]

\* the callbacks `gone` are no longer registered for `key`
Forget(key, gone) ==
  [delivered EXCEPT ![key] =
     [cb \in Callbacks |-> IF cb \in gone THEN Null ELSE @[cb]]]

\* no promise settled in this step
NoResult == [settled |-> "pending", success |-> FALSE, error |-> <<>>]

\* the observation of one step: the handler that ran, its key, the result an
\* addTicker call returned in it, the callback invocations made in it and the
\* price they were passed. Steps that return nothing and invoke nothing are
\* observed alike.
Event(op, key, result, invoked, price) ==
  IF op \in {"addJoin", "addDone", "tick", "removeOne", "removeAgain"}
    THEN [op |-> op, key |-> key, result |-> result, invoked |-> invoked,
          price |-> IF invoked = NoInvocation THEN Null ELSE price,
          threw |-> {}, failed |-> FALSE, asked |-> <<>>, seen |-> Null]
    ELSE [op |-> "quiet", key |-> Null, result |-> NoResult,
          invoked |-> NoInvocation, price |-> Null, threw |-> {},
          failed |-> FALSE, asked |-> <<>>, seen |-> Null]

\* the same observation, where the invoked callbacks in `thrown` threw
Threw(e, thrown) ==
  [e EXCEPT !.threw = {cb \in thrown : e.invoked[cb] > 0}]

\* the same observation of an addTicker call that returned at once, with the
\* arguments (ticker, exchange) as the caller spelled them
Asked(e, ticker, exchange) == [e EXCEPT !.asked = <<ticker, exchange>>]

\* the same observation of a poll tick, where extractPrice returned `price`:
\* the read failed when it returned null
ReadGave(e, price) == [e EXCEPT !.failed = (price = Null)]

----------------------------------------------------------------------------
(* server.ts: its module state                                              *)

\* the browsers that open an SSE connection: A posts subscribe and
\* unsubscribe requests, B posts no subscribe request
Browsers == {"A", "B"}

Subscriber == "A"

\* the n of the client ids `client-${n}`
ClientIds == 1..MaxClients

\* a Client record: the browser at the other end of `res`, and its tickers
Client(browser) == [browser |-> browser, tickers |-> {}]

NoWrites == [c \in ClientIds |-> 0]

\* nothing was written and no request was answered in this step
NoOut == [op |-> "none", key |-> Null, by |-> Null, status |-> 0,
          sent |-> NoWrites]

ServerInit ==
  [clients |-> EmptyMap,          \* clients: id -> Client
   clientIdCounter |-> 0,
   tickerCallbacks |-> EmptyMap,  \* tickerCallbacks: key -> callback
   lost |-> {},                   \* the tickers the subscriber's connection
                                  \* had when it closed, not unsubscribed
                                  \* since (observation only)
   out |-> NoOut]                 \* what the last step wrote and answered

Init ==
  /\ server = ServerInit
  /\ source = [k \in Keys |-> <<"1","0">>]
  /\ context = "null"
  /\ listeners = EmptyMap
  /\ pages = EmptyMap
  /\ prices = EmptyMap
  /\ intervalIds = EmptyMap
  /\ openPages = {}
  /\ activeTimers = {}
  /\ opening = {}
  /\ stopping = <<>>
  /\ ticks = <<>>
  /\ nextId = 1
  /\ purged = {}
  /\ cleanup = [pc |-> "idle", visited |-> {}]
  /\ delivered = [k \in Keys |-> [cb \in Callbacks |-> Null]]
  /\ ev = Event("construct", Null, NoResult, NoInvocation, Null)

\* initialize(): launches the browser and creates the shared context
Initialize ==
  /\ context = "null"
  /\ context' = "open"
  /\ ev' = Event("initialize", Null, NoResult, NoInvocation, Null)
  /\ UNCHANGED <<listeners, pages, prices, intervalIds, openPages,
                 activeTimers, opening, stopping, ticks, nextId, purged,
                 cleanup, delivered>>

----------------------------------------------------------------------------
(* addTicker                                                                *)

\* a wrong test: the pages map instead of the listeners map
NeedsOpenByPage(key) == ~MapHas(pages, key)

\* the test that decides whether this call opens the source
NeedsOpen(key) == ~MapHas(listeners, key)

\* bookkeeping on the suspended opens of `key` (observation only)
NoteRemove(key) ==
  { IF c.key = key THEN [c EXCEPT !.undisturbed = FALSE] ELSE c : c \in opening }

\* no addTicker or removeTicker call for `key` is suspended
Idle(key) ==
  /\ \A c \in opening : c.key # key
  /\ \A i \in 1..Len(stopping) : stopping[i].key # key

NoteResubscribe(key) ==
  [i \in 1..Len(stopping) |->
     IF stopping[i].key = key THEN [stopping[i] EXCEPT !.purge = FALSE]
     ELSE stopping[i]]

\* callbacks.add(callback)
Register(callbacks, callback) == callbacks \cup {callback}

\* the callbacks the replay is about to invoke
Replayed(callback, currentPrice) ==
  IF currentPrice # Null THEN {callback} ELSE {}

\* what addTicker settles with after the replay: nothing catches what the
\* callback throws
Returned(thrown) == IF thrown # {} THEN Rejected ELSE Success

\* addTicker up to its first suspension (or to its return, when it does not
\* suspend)
AddTicker(ticker, exchange, callback, mayThrow) ==
  LET upperTicker == UpperCased[ticker]
      upperExchange == UpperCased[exchange]
      key == MakeKey(upperExchange, upperTicker)
  IN
  /\ purged' = purged \ {key}
  /\ stopping' = NoteResubscribe(key)
  /\ IF NeedsOpen(key)
       THEN IF context = "null"
         THEN \* startScrapingTicker throws, the catch deletes the new set
              /\ listeners' = MapDelete(MapSet(listeners, key, {}), key)
              /\ ev' = Event("addDone", key, Failure(VerifyError(upperTicker)),
                             NoInvocation, Null)
              /\ UNCHANGED <<opening, nextId, delivered>>
         ELSE \* suspended at `await this.context.newPage()`
              /\ nextId <= MaxOpens
              /\ listeners' = MapSet(listeners, key, {})
              /\ opening' = opening \cup
                   {[id |-> nextId, key |-> key, ticker |-> upperTicker,
                     cb |-> callback, pc |-> "newPage",
                     undisturbed |-> Idle(key)]}
              /\ nextId' = nextId + 1
              /\ ev' = Event("addOpen", key, NoResult, NoInvocation, Null)
              /\ UNCHANGED delivered
       ELSE \* the key has a listener set: register and replay
            /\ listeners' = MapSet(listeners, key, Register(listeners[key], callback))
            /\ opening' = opening
            /\ delivered' = Deliver(key, Replay(callback, getPrice(key)),
                                    getPrice(key))
            /\ \E thrown \in Throwing(Replayed(callback, getPrice(key)), mayThrow) :
                 ev' = Asked(Threw(Event("addJoin", key, Returned(thrown),
                                         Replay(callback, getPrice(key)),
                                         getPrice(key)), thrown),
                             ticker, exchange)
            /\ UNCHANGED nextId
  /\ UNCHANGED <<context, pages, prices, intervalIds, openPages, activeTimers,
                 ticks, cleanup>>

\* startScrapingTicker resumes after `await this.context.newPage()`
NewPageDone(c) ==
  /\ c.pc = "newPage"
  /\ context = "open"
  /\ openPages' = openPages \cup {Page(c.id, c.key)}
  /\ pages' = MapSet(pages, c.key, Page(c.id, c.key))
  /\ opening' = (opening \ {c}) \cup {[c EXCEPT !.pc = "loading"]}
  /\ ev' = Event("newPage", c.key, NoResult, NoInvocation, Null)
  /\ UNCHANGED <<context, listeners, prices, intervalIds, activeTimers,
                 stopping, ticks, nextId, purged, cleanup, delivered>>

\* startScrapingTicker resumes after goto / waitForTimeout / extractPrice.
\* gotoOk = FALSE is page.goto throwing (navigation timeout, closed page).
OpenLoaded(c, gotoOk, dom, mayThrow) ==
  LET page == Page(c.id, c.key)
      initialPrice == IF gotoOk /\ page \in openPages
                        THEN extractPrice(TRUE, dom) ELSE Null
  IN
  /\ c.pc = "loading"
  /\ IF initialPrice = Null
       THEN \* both failure paths: suspended at `await page.close()`
            /\ opening' = (opening \ {c}) \cup {[c EXCEPT !.pc = "closing"]}
            /\ ev' = Event("openInvalid", c.key, NoResult, NoInvocation, Null)
            /\ UNCHANGED <<listeners, prices, intervalIds, activeTimers,
                           delivered>>
       ELSE \* valid: cache, start the interval, return true; addTicker
            \* continues to registration and replay
            /\ prices' = MapSet(prices, c.key, initialPrice)
            /\ activeTimers' = activeTimers \cup {page}
            /\ intervalIds' = MapSet(intervalIds, c.key, page)
            /\ opening' = opening \ {c}
            /\ IF MapHas(listeners, c.key)
                 THEN /\ listeners' =
                           MapSet(listeners, c.key, Register(listeners[c.key], c.cb))
                      /\ delivered' = Deliver(c.key, Replay(c.cb, initialPrice),
                                              initialPrice)
                      /\ \E thrown \in Throwing(Replayed(c.cb, initialPrice), mayThrow) :
                           ev' = Threw(Event("addDone", c.key, Returned(thrown),
                                             Replay(c.cb, initialPrice),
                                             initialPrice), thrown)
                 ELSE \* this.listeners.get(key)! is undefined: TypeError
                      /\ listeners' = listeners
                      /\ ev' = Event("addDone", c.key, Rejected, NoInvocation, Null)
                      /\ UNCHANGED delivered
  /\ UNCHANGED <<context, pages, openPages, stopping, ticks, nextId, purged,
                 cleanup>>

\* the failure path resumes after `await page.close()`; startScrapingTicker
\* returns false and addTicker deletes the listener set
OpenFailClosed(c) ==
  /\ c.pc = "closing"
  /\ openPages' = openPages \ {Page(c.id, c.key)}
  /\ pages' = MapDelete(pages, c.key)
  /\ listeners' = MapDelete(listeners, c.key)
  /\ opening' = opening \ {c}
  /\ delivered' = Forget(c.key, Callbacks)
  /\ ev' = Event("addDone", c.key, Failure(InvalidTickerError(c.ticker)),
                 NoInvocation, Null)
  /\ UNCHANGED <<context, prices, intervalIds, activeTimers, stopping, ticks,
                 nextId, purged, cleanup>>

----------------------------------------------------------------------------
(* removeTicker and stopScrapingTicker                                      *)

\* whether removeTicker looks at the listener set of `key` at all
HasCallbacks(key) == MapHas(listeners, key)

\* removeTicker returns (its promise resolves to undefined)
ResolvedVoid == [settled |-> "resolved", success |-> FALSE, error |-> <<>>]

\* a wrong removeTicker without the test `if (callbacks)`: callbacks.delete
\* on undefined is a TypeError
RemoveAbsentThrows(key) == Rejected

\* how removeTicker settles when the key has no listener set: `if (callbacks)`
\* skips everything and the call returns
RemoveAbsent(key) == ResolvedVoid

\* a wrong delete: the callback is looked up by another identity
UnregisterNone(callbacks, callback) == callbacks

\* callbacks.delete(callback)
Unregister(callbacks, callback) == callbacks \ {callback}

\* a wrong test: any removal counts as the last one
AnyListenerGone(key, callback) == TRUE

\* the test `callbacks.size === 0` after the delete
LastListenerGone(key, callback) == Unregister(listeners[key], callback) = {}

\* removeTicker up to the suspension at `await page.close()` inside
\* stopScrapingTicker (or to its return, when nothing is awaited)
RemoveTicker(ticker, exchange, callback) ==
  LET upperTicker == UpperCased[ticker]
      upperExchange == UpperCased[exchange]
      key == MakeKey(upperExchange, upperTicker)
  IN
  /\ opening' = NoteRemove(key)
  /\ ev' = Event(IF callback \in Registered(key)
                      /\ ~LastListenerGone(key, callback)
                   THEN "removeOne"
                   ELSE IF ~HasCallbacks(key) /\ key \in purged
                     THEN "removeAgain" ELSE "remove",
                 key, IF ~HasCallbacks(key) THEN RemoveAbsent(key) ELSE NoResult,
                 NoInvocation, Null)
  /\ IF ~HasCallbacks(key)
       THEN UNCHANGED <<listeners, intervalIds, activeTimers, stopping, prices,
                        delivered>>
       ELSE IF ~LastListenerGone(key, callback)
         THEN /\ listeners' =
                   MapSet(listeners, key, Unregister(listeners[key], callback))
              /\ delivered' = Forget(key, {callback})
              /\ UNCHANGED <<intervalIds, activeTimers, stopping, prices>>
         ELSE \* this.listeners.delete(key); await this.stopScrapingTicker(key)
              /\ listeners' = MapDelete(listeners, key)
              /\ delivered' = Forget(key, Callbacks)
              /\ IF MapHas(intervalIds, key)
                   THEN /\ activeTimers' = activeTimers \ {intervalIds[key]}
                        /\ intervalIds' = MapDelete(intervalIds, key)
                   ELSE UNCHANGED <<intervalIds, activeTimers>>
              /\ IF MapHas(pages, key)
                   THEN \* suspended at `await page.close()`
                        /\ stopping' = Append(stopping,
                             [key |-> key, page |-> pages[key],
                              purge |-> IsOpen(key)])
                        /\ UNCHANGED prices
                   ELSE /\ prices' = MapDelete(prices, key)
                        /\ UNCHANGED stopping
  /\ UNCHANGED <<context, pages, openPages, ticks, nextId, purged, cleanup>>

RemoveAt(s, i) == SubSeq(s, 1, i - 1) \o SubSeq(s, i + 1, Len(s))

\* stopScrapingTicker resumes after `await page.close()`; removeTicker returns
StopClosed(i) ==
  LET r == stopping[i] IN
  /\ openPages' = openPages \ {r.page}
  /\ pages' = MapDelete(pages, r.key)
  /\ prices' = MapDelete(prices, r.key)
  /\ stopping' = RemoveAt(stopping, i)
  /\ purged' = IF r.purge THEN purged \cup {r.key} ELSE purged
  /\ ev' = Event("removeDone", r.key, NoResult, NoInvocation, Null)
  /\ UNCHANGED <<context, listeners, intervalIds, activeTimers, opening, ticks,
                 nextId, cleanup, delivered>>

\* `await page.close()` of stopScrapingTicker rejects: the exception leaves
\* stopScrapingTicker and removeTicker, which has no try/catch; the two
\* deletes after the await do not run. `gone` tells whether the browser has
\* lost the page all the same.
StopCloseFailed(i, gone) ==
  LET r == stopping[i] IN
  /\ openPages' = IF gone THEN openPages \ {r.page} ELSE openPages
  /\ stopping' = RemoveAt(stopping, i)
  /\ ev' = Event("removeFailed", r.key, NoResult, NoInvocation, Null)
  /\ UNCHANGED <<context, listeners, pages, prices, intervalIds, activeTimers,
                 opening, ticks, nextId, purged, cleanup, delivered>>

\* `await page.close()` on the failure path of startScrapingTicker rejects
\* (when it is the close of line 110, the catch of line 135 runs the close of
\* line 137, which rejects too): startScrapingTicker rejects, pages.delete
\* does not run, and the catch of addTicker deletes the listener set
OpenCloseFailed(c, gone) ==
  /\ c.pc = "closing"
  /\ openPages' = IF gone THEN openPages \ {Page(c.id, c.key)} ELSE openPages
  /\ listeners' = MapDelete(listeners, c.key)
  /\ opening' = opening \ {c}
  /\ delivered' = Forget(c.key, Callbacks)
  /\ ev' = Event("addDone", c.key, Failure(VerifyError(c.ticker)),
                 NoInvocation, Null)
  /\ UNCHANGED <<context, pages, prices, intervalIds, activeTimers, stopping,
                 ticks, nextId, purged, cleanup>>

----------------------------------------------------------------------------
(* The poll tick: the setInterval callback of startScrapingTicker           *)

\* the interval of timer t fires: the callback starts and suspends at
\* `await this.extractPrice(page, key)`. setInterval does not wait for the
\* promise of an earlier callback.
MayFire(t) == t \in activeTimers

TickFire(t) ==
  /\ MayFire(t)
  /\ Len(ticks) < MaxTicks
  /\ ticks' = Append(ticks, [timer |-> t, overtaken |-> FALSE])
  /\ ev' = Event("tickFire", t.key, NoResult, NoInvocation, Null)
  /\ UNCHANGED <<context, listeners, pages, prices, intervalIds, openPages,
                 activeTimers, opening, stopping, nextId, purged, cleanup,
                 delivered>>

\* a wrong test: the guard `price &&` is missing
ChangedOrEmpty(key, price) == price # getPrice(key)

\* a wrong test: every valid read counts as a change
ChangedAlways(key, price) == price # Null

\* the test `price && price !== this.prices.get(key)`
Changed(key, price) == price # Null /\ price # getPrice(key)

\* a wrong order: notifyListeners runs before this.prices.set
DuringFanOutStale(key, price) == prices

\* this.prices while notifyListeners(key, price) runs in a tick: the tick has
\* already done this.prices.set(key, price)
DuringFanOut(key, price) == MapSet(prices, key, price)

\* the same observation of a tick, where the callbacks it invoked found
\* `cached` in this.prices and so got cached[key] from getPrice(key)
Saw(e, cached) ==
  IF e.invoked = NoInvocation THEN e
  ELSE [e EXCEPT !.seen = IF MapHas(cached, e.key) THEN cached[e.key] ELSE Null]

\* the callback resumes with the result of extractPrice
TickDone(i, dom, mayThrow) ==
  LET tk == ticks[i]
      key == tk.timer.key
      price == extractPrice(tk.timer \in openPages, dom)
      wrote == Changed(key, price)
      rest == [j \in 1..Len(ticks) |->
                 IF wrote /\ j < i /\ ticks[j].timer.key = key
                   THEN [ticks[j] EXCEPT !.overtaken = TRUE] ELSE ticks[j]]
  IN
  /\ ticks' = RemoveAt(rest, i)
  /\ prices' = IF wrote THEN MapSet(prices, key, price) ELSE prices
  /\ \E thrown \in Throwing(IF wrote THEN Registered(key) ELSE {}, mayThrow) :
       LET invoked == IF wrote THEN notifyListeners(key, thrown)
                               ELSE NoInvocation
       IN  /\ delivered' = Deliver(key, invoked, price)
           /\ ev' = Saw(ReadGave(Threw(Event("tick", key, NoResult, invoked,
                                             price), thrown), price),
                        DuringFanOut(key, price))
  /\ UNCHANGED <<context, listeners, pages, intervalIds, openPages, activeTimers,
                 opening, stopping, nextId, purged, cleanup>>

----------------------------------------------------------------------------
(* cleanup                                                                  *)

\* cleanup() up to its first suspension: every interval in intervalIds is
\* cleared and the map emptied; then the loop over this.pages.values()
\* awaits the first page.close(), or, with no tracked page, pages.clear()
\* runs and cleanup awaits context.close()
CleanupStart ==
  /\ cleanup.pc = "idle"
  /\ activeTimers' = activeTimers \ {intervalIds[k] : k \in DOMAIN intervalIds}
  /\ intervalIds' = EmptyMap
  /\ cleanup' = [pc |-> IF DOMAIN pages = {} THEN "context" ELSE "pages",
                 visited |-> {}]
  /\ ev' = Event("cleanup", Null, NoResult, NoInvocation, Null)
  /\ UNCHANGED <<context, listeners, pages, prices, openPages, opening,
                 stopping, ticks, nextId, purged, delivered>>

\* the loop resumes after `await page.close()` for the entry of key k; the
\* Map iterator is live, so entries set meanwhile are visited too; after the
\* last entry pages.clear() runs and cleanup awaits context.close()
CleanupPageClosed(k) ==
  /\ cleanup.pc = "pages"
  /\ MapHas(pages, k) /\ k \notin cleanup.visited
  /\ openPages' = openPages \ {pages[k]}
  /\ IF DOMAIN pages \subseteq cleanup.visited \cup {k}
       THEN /\ pages' = EmptyMap
            /\ cleanup' = [pc |-> "context", visited |-> {}]
       ELSE /\ pages' = pages
            /\ cleanup' = [cleanup EXCEPT !.visited = @ \cup {k}]
  /\ ev' = Event("cleanupPage", k, NoResult, NoInvocation, Null)
  /\ UNCHANGED <<context, listeners, prices, intervalIds, activeTimers,
                 opening, stopping, ticks, nextId, purged, delivered>>

\* cleanup resumes after `await this.context.close()`, which closes every
\* page of the context, and awaits browser.close(). Before initialize()
\* there is nothing to close.
CleanupContextClosed ==
  /\ cleanup.pc = "context"
  /\ context' = IF context = "null" THEN "null" ELSE "closed"
  /\ openPages' = {}
  /\ cleanup' = [pc |-> "browser", visited |-> {}]
  /\ ev' = Event("cleanupContext", Null, NoResult, NoInvocation, Null)
  /\ UNCHANGED <<listeners, pages, prices, intervalIds, activeTimers, opening,
                 stopping, ticks, nextId, purged, delivered>>

\* cleanup resumes after `await this.browser.close()` and returns; the
\* SIGINT handler of server.ts then exits the process
CleanupDone ==
  /\ cleanup.pc = "browser"
  /\ cleanup' = [pc |-> "done", visited |-> {}]
  /\ ev' = Event("cleanupDone", Null, NoResult, NoInvocation, Null)
  /\ UNCHANGED <<context, listeners, pages, prices, intervalIds, openPages,
                 activeTimers, opening, stopping, ticks, nextId, purged,
                 delivered>>

----------------------------------------------------------------------------
(* server.ts: the handlers                                                  *)

\* the request bodies { ticker, exchange } the browsers post: the two
\* spellings of one symbol
Bodies == {r \in Requests : toUpperCase(r.ticker) = <<"B","T">>}

\* (exchange || 'BINANCE')
OrDefault(exchange) ==
  IF exchange = Null THEN <<"B","I","N","A","N","C","E">> ELSE exchange

\* broadcast(key, price): the messages written to each client
Broadcast(clients, key) ==
  [c \in ClientIds |->
     IF c \in DOMAIN clients /\ key \in clients[c].tickers THEN 1 ELSE 0]

\* the writes of n broadcasts followed by those of `more`
Writes(n, once, more) == [c \in ClientIds |-> n * once[c] + more[c]]

\* how many times the callbacks were invoked in a step; each invocation of a
\* callback `(price) => broadcast(key, price)` is one broadcast
Invocations(invoked) ==
  LET RECURSIVE Sum(_)
      Sum(S) == IF S = {} THEN 0
                ELSE LET cb == CHOOSE x \in S : TRUE
                     IN  invoked[cb] + Sum(S \ {cb})
  IN  Sum(Callbacks)

\* for (const client of clients.values()) client.tickers.add(key)
AddToAll(clients, key) ==
  [c \in DOMAIN clients |-> [clients[c] EXCEPT !.tickers = @ \cup {key}]]

\* for (const client of clients.values()) client.tickers.delete(key)
DeleteFromAll(clients, key) ==
  [c \in DOMAIN clients |-> [clients[c] EXCEPT !.tickers = @ \ {key}]]

\* the closures some map, listener set or suspended call still refers to
Referenced ==
  UNION {listeners[k] : k \in DOMAIN listeners}
    \cup {c.cb : c \in opening}
    \cup {server.tickerCallbacks[k] : k \in DOMAIN server.tickerCallbacks}

\* GET /events: handleEvents
Connect(b) ==
  /\ context = "open"
  /\ server.clientIdCounter < MaxClients
  /\ \A c \in DOMAIN server.clients : server.clients[c].browser # b
  /\ server' = [server EXCEPT
                  !.clientIdCounter = @ + 1,
                  !.clients = MapSet(@, server.clientIdCounter + 1, Client(b)),
                  !.out = NoOut]
  /\ UNCHANGED scraper

\* req.on('close') of an SSE connection
Disconnect(c) ==
  /\ server' = [server EXCEPT
                  !.clients = MapDelete(@, c),
                  !.lost = IF server.clients[c].browser = Subscriber
                             THEN server.clients[c].tickers ELSE @,
                  !.out = NoOut]
  /\ UNCHANGED scraper

\* handleSubscribe after `await priceScraper.addTicker(...)`: `e` observes the
\* addTicker call that settled (its result and the replay it made), `cached`
\* is this.prices then. `s` is the server state before.
SubscribeAnswered(s, e, cached) ==
  LET key == e.key
      replay == Invocations(e.invoked)
      answer(status, sent) ==
        [op |-> "subscribe", key |-> key, by |-> Null, status |-> status,
         sent |-> sent]
  IN
  IF e.result.settled = "rejected"
    THEN \* the catch: 400 'Invalid request'
         [s EXCEPT !.out = answer(400, Writes(replay, Broadcast(s.clients, key),
                                              NoWrites))]
  ELSE IF ~e.result.success
    THEN [s EXCEPT !.tickerCallbacks = MapDelete(@, key),
                   !.out = answer(400, Writes(replay, Broadcast(s.clients, key),
                                              NoWrites))]
  ELSE [s EXCEPT
          !.clients = AddToAll(@, key),
          !.out = answer(200,
                    Writes(replay, Broadcast(s.clients, key),
                           IF MapHas(cached, key)
                             THEN Broadcast(AddToAll(s.clients, key), key)
                             ELSE NoWrites))]

\* POST /subscribe: handleSubscribe up to `await priceScraper.addTicker(...)`
\* and, when addTicker does not suspend, to the response
Subscribe(r) ==
  LET upperTicker == UpperCased[r.ticker]
      upperExchange == UpperCased[OrDefault(r.exchange)]
      key == MakeKey(upperExchange, upperTicker)
  IN
  /\ context = "open"
  /\ \E callback \in Callbacks \ Referenced :
       /\ AddTicker(upperTicker, upperExchange, callback, FALSE)
       /\ LET s == [server EXCEPT
                      !.tickerCallbacks = MapSet(@, key, callback)]
          IN  server' = IF ev'.op = "quiet"
                          THEN [s EXCEPT !.out = NoOut]
                          ELSE SubscribeAnswered(s, ev', prices')

\* POST /unsubscribe: handleUnsubscribe up to `await removeTicker(...)`
Unsubscribe(r, b) ==
  LET upperTicker == UpperCased[r.ticker]
      upperExchange == UpperCased[OrDefault(r.exchange)]
      key == MakeKey(upperExchange, upperTicker)
      s == [server EXCEPT
              !.clients = DeleteFromAll(@, key),
              !.lost = @ \ {key},
              !.out = [op |-> "unsubscribe", key |-> key, by |-> b,
                       status |-> 200, sent |-> NoWrites]]
  IN
  /\ context = "open"
  /\ IF MapHas(server.tickerCallbacks, key)
       THEN /\ RemoveTicker(upperTicker, upperExchange,
                            server.tickerCallbacks[key])
            /\ server' = [s EXCEPT
                            !.tickerCallbacks = MapDelete(@, key),
                            !.out.status = IF Len(stopping') > Len(stopping)
                                             THEN 0 ELSE 200]
       ELSE /\ server' = s
            /\ UNCHANGED scraper

\* a suspended addTicker call resumes; when it settles, handleSubscribe
\* answers
SubscribeResumed ==
  /\ \/ \E c \in opening : NewPageDone(c)
     \/ \E c \in opening, gotoOk \in BOOLEAN, dom \in DomStates :
          OpenLoaded(c, gotoOk, dom, FALSE)
     \/ \E c \in opening : OpenFailClosed(c)
  /\ server' = IF ev'.op = "addDone"
                 THEN SubscribeAnswered(server, ev', prices')
                 ELSE [server EXCEPT !.out = NoOut]

\* the removeTicker call of a handleUnsubscribe resumes and the handler
\* answers 200
UnsubscribeResumed ==
  /\ \E i \in 1..Len(stopping) :
       /\ StopClosed(i)
       /\ server' = [server EXCEPT
                       !.out = [op |-> "unsubscribe", key |-> stopping[i].key,
                                by |-> Null, status |-> 200,
                                sent |-> NoWrites]]

\* an interval fires; the read of the tick before it has completed
Polled ==
  /\ ticks = <<>>
  /\ \E t \in activeTimers : TickFire(t)
  /\ server' = [server EXCEPT !.out = NoOut]

\* a poll tick completes: every callback it invokes broadcasts
PollAnswered ==
  /\ \E i \in 1..Len(ticks), dom \in DomStates : TickDone(i, dom, FALSE)
  /\ server' = [server EXCEPT
                  !.out = [op |-> "tick", key |-> ev'.key, by |-> Null,
                           status |-> 0,
                           sent |-> Writes(Invocations(ev'.invoked),
                                           Broadcast(server.clients, ev'.key),
                                           NoWrites)]]

----------------------------------------------------------------------------
(* Specification                                                            *)

\* a caller calls initialize, addTicker or removeTicker
Call(mayThrow) ==
  \/ Initialize
  \/ \E r \in Requests, cb \in Callbacks :
        AddTicker(r.ticker, r.exchange, cb, mayThrow)
  \/ \E r \in Requests, cb \in Callbacks : RemoveTicker(r.ticker, r.exchange, cb)

\* a suspended call resumes, or an interval timer fires
Resume(mayThrow) ==
  \/ \E c \in opening : NewPageDone(c)
  \/ \E c \in opening, gotoOk \in BOOLEAN, dom \in DomStates :
        OpenLoaded(c, gotoOk, dom, mayThrow)
  \/ \E c \in opening : OpenFailClosed(c)
  \/ \E i \in 1..Len(stopping) : StopClosed(i)
  \/ \E t \in activeTimers : TickFire(t)
  \/ \E i \in 1..Len(ticks), dom \in DomStates : TickDone(i, dom, mayThrow)

\* one step of the scraper, its callers, the browser and the timers
Step(mayThrow) == Call(mayThrow) \/ Resume(mayThrow)

\* the callers' callbacks return normally, pages close when asked to
Next == Step(FALSE) /\ UNCHANGED <<server, source>>

Spec == Init /\ [][Next]_vars

\* the callers' callbacks may throw
NextThrowing == Step(TRUE) /\ UNCHANGED <<server, source>>

SpecThrowing == Init /\ [][NextThrowing]_vars

\* page.close() may reject
NextCloseFails ==
  /\ \/ Step(FALSE)
     \/ \E i \in 1..Len(stopping), gone \in BOOLEAN : StopCloseFailed(i, gone)
     \/ \E c \in opening, gone \in BOOLEAN : OpenCloseFailed(c, gone)
  /\ UNCHANGED <<server, source>>

SpecCloseFails == Init /\ [][NextCloseFails]_vars

\* the process is shut down: cleanup() is called once, at any time; no new
\* call arrives while it runs, the suspended calls and the timers go on; the
\* process exits when it returns
NextShutdown ==
  /\ \/ cleanup.pc = "idle" /\ Call(FALSE)
     \/ cleanup.pc # "done" /\ Resume(FALSE)
     \/ CleanupStart
     \/ \E k \in Keys : CleanupPageClosed(k)
     \/ CleanupContextClosed
     \/ CleanupDone
  /\ UNCHANGED <<server, source>>

SpecShutdown == Init /\ [][NextShutdown]_vars

\* the server process: main() initializes the scraper, then browsers connect,
\* disconnect and post requests while the suspended calls resume and the
\* timers fire
NextServer ==
  /\ \/ Initialize /\ UNCHANGED server
     \/ \E b \in Browsers : Connect(b)
     \/ \E c \in DOMAIN server.clients : Disconnect(c)
     \/ \E r \in Bodies : Subscribe(r)
     \/ \E r \in Bodies, b \in Browsers : Unsubscribe(r, b)
     \/ SubscribeResumed
     \/ UnsubscribeResumed
     \/ Polled
     \/ PollAnswered
  /\ UNCHANGED source

SpecServer == Init /\ [][NextServer]_vars

\* the prices a quoted page may show
SourceValues == {ReadOf[dom] : dom \in DomStates} \ {Null}

\* the snapshots a read may find while the page shows `value`: the value
\* under one of the selectors, or nothing readable
Showing(value) == {dom \in DomStates : ReadOf[dom] \in {value, Null}}

\* the requests for the symbol whose page is followed
Quoted == {r \in Requests : toUpperCase(r.ticker) = <<"E","T">>}

QuotedKeys == {RequestKey[r] : r \in Quoted}

\* the quoted page of key k shows another price
SourceChanges(k) ==
  /\ \E v \in SourceValues \ {source[k]} : source' = [source EXCEPT ![k] = v]
  /\ UNCHANGED <<scraper, server>>

\* a poll tick completes and its read found the price the page shows
TickRead(i) ==
  \E dom \in DomStates :
     /\ ReadOf[dom] = source[ticks[i].timer.key]
     /\ TickDone(i, dom, FALSE)

\* a poll tick completes and its read found nothing readable
TickMissed(i) ==
  \E dom \in DomStates : ReadOf[dom] = Null /\ TickDone(i, dom, FALSE)

\* the timers that may exist for the followed page
QuotedTimers == {Page(id, k) : id \in 1..MaxOpens, k \in QuotedKeys}

\* the interval of timer t fires
LiveFire(t) ==
  /\ TickFire(t)
  /\ UNCHANGED <<server, source>>

\* a tick of timer t completes on its open page with a successful read
LiveRead(t) ==
  /\ t \in openPages
  /\ \E i \in 1..Len(ticks) : ticks[i].timer = t /\ TickRead(i)
  /\ UNCHANGED <<server, source>>

\* a tick in flight completes, whatever its read found
LiveDone ==
  /\ \E i \in 1..Len(ticks) : TickRead(i) \/ TickMissed(i)
  /\ UNCHANGED <<server, source>>

\* the scraper follows one quoted page: every read finds what the page shows
\* or nothing, and the page changes its price at any time
NextLive ==
  \/ /\ \/ Initialize
        \/ \E r \in Quoted, cb \in Callbacks :
              AddTicker(r.ticker, r.exchange, cb, FALSE)
        \/ \E r \in Quoted, cb \in Callbacks :
              RemoveTicker(r.ticker, r.exchange, cb)
        \/ \E c \in opening : NewPageDone(c)
        \/ \E c \in opening, gotoOk \in BOOLEAN :
              \E dom \in Showing(source[c.key]) : OpenLoaded(c, gotoOk, dom, FALSE)
        \/ \E c \in opening : OpenFailClosed(c)
        \/ \E i \in 1..Len(stopping) : StopClosed(i)
        \/ \E t \in activeTimers : TickFire(t)
        \/ \E i \in 1..Len(ticks) : TickRead(i)
        \/ \E i \in 1..Len(ticks) : TickMissed(i)
     /\ UNCHANGED <<server, source>>
  \/ \E k \in QuotedKeys : SourceChanges(k)

\* every extractPrice of a tick settles; setInterval fires every timer that
\* is set again and again, whatever the other timers do; and for every timer
\* the reads of its ticks on an open page succeed again and again (a read
\* may fail any number of times in between)
SpecLive ==
  /\ Init /\ [][NextLive]_vars
  /\ WF_vars(LiveDone)
  /\ \A t \in QuotedTimers : SF_vars(LiveFire(t)) /\ SF_vars(LiveRead(t))

----------------------------------------------------------------------------
(* Vocabulary of the properties                                             *)

\* k has a non-empty listener set
HasListeners(k) == MapHas(listeners, k) /\ listeners[k] # {}

\* the pages of key k that newPage() has created and nobody has closed yet
LivePages(k) == {p \in openPages : p.key = k}

\* the interval timers of key k that are still set
LiveTimers(k) == {t \in activeTimers : t.key = k}

\* the poll ticks of key k suspended in their read
TicksInFlight(k) == {i \in 1..Len(ticks) : ticks[i].timer.key = k}

\* the keys some addTicker call is opening
OpeningKeys == {c.key : c \in opening}

----------------------------------------------------------------------------
(* C1: whenever no call for key k is in flight, k has a non-empty listener  *)
(* set if and only if k has an open session (tracked page, running timer).  *)
C1_ListenersIffSession ==
  \A k \in Keys : Idle(k) => (HasListeners(k) <=> IsOpen(k))

(* C2: at no time do two source pages exist for the same key.               *)
C2_OneSessionPerKey ==
  \A k \in Keys : Cardinality(LivePages(k)) <= 1

(* C3: overlapping first subscribes get the same outcome: when the call     *)
(* that opened the source returns failure, no caller that arrived during    *)
(* the open has been answered success and registered.                       *)
C3_SameOutcome ==
  [][\A c \in opening :
       OpenFailClosed(c) =>
         (MapHas(listeners, c.key) => listeners[c.key] = {})]_vars

(* C4: while the open of the first addTicker for key k (no other call for k *)
(* was in flight when it started) is in flight and no removeTicker for k    *)
(* has intervened, an addTicker for k starts no second source open: that    *)
(* open stays the only one.                                                 *)
C4_ExactlyOneOpen ==
  [][\A c \in opening :
       c.undisturbed =>
         /\ \A d \in opening' :
              d.id \notin {x.id : x \in opening} => d.key # c.key
         /\ \A d \in opening : d.key = c.key => d.id = c.id]_vars

\* a second addTicker has just returned while the first one's open is in
\* flight and no removeTicker intervened
C4_Witness ==
  /\ ev.op = "addJoin"
  /\ \E c \in opening :
       c.key = ev.key /\ c.undisturbed /\ c.cb \notin listeners[c.key]

(* C5: an addTicker whose open fails returns {success:false} with a         *)
(* non-empty error, and then its key has no listener set, no cache entry,   *)
(* no tracked page and no poll timer.                                       *)
C5_FailedOpenLeavesNothing ==
  (ev.op = "addDone" /\ ev.result.settled = "resolved" /\ ~ev.result.success) =>
    /\ Len(ev.result.error) > 0
    /\ ~MapHas(listeners, ev.key)
    /\ ~MapHas(prices, ev.key)
    /\ ~MapHas(pages, ev.key)
    /\ ~MapHas(intervalIds, ev.key)
    /\ LiveTimers(ev.key) = {}

(* C6: when removeTicker removes the last listener of an OPEN key, the page *)
(* of the key is closed exactly once, the poll timer is cleared and the     *)
(* cache entry is removed, and from the completion of that removeTicker     *)
(* until the key is subscribed again getPrice returns absent.               *)
C6_TeardownOnCompletion ==
  \A i \in 1..Len(stopping) :
    (StopClosed(i) /\ stopping[i].purge) =>
      LET r == stopping[i] IN
      \* this close is the one close of the page
      /\ r.page \in openPages
      /\ \A j \in 1..Len(stopping) : j # i => stopping[j].page # r.page
      /\ \A c \in opening : Page(c.id, c.key) # r.page
      \* no timer is left, no cache entry is left
      /\ ~MapHas(intervalIds', r.key)
      /\ \A t \in activeTimers' : t.key # r.key
      /\ ~MapHas(prices', r.key)

C6_LastRemoveTearsDown ==
  /\ [][C6_TeardownOnCompletion]_vars
  /\ [](\A k \in purged : getPrice(k) = Null)

(* C7: a poll tick whose read equals the cached value invokes no listener;  *)
(* a tick whose read is a valid value different from the cached value      *)
(* invokes every listener registered for the key exactly once.              *)
C7_TickNotifiesOnChangeOnly ==
  [][\A i \in 1..Len(ticks), dom \in DomStates :
       TickDone(i, dom, FALSE) =>
         LET key == ticks[i].timer.key
             read == extractPrice(ticks[i].timer \in openPages, dom)
         IN  /\ ev'.op = "tick"
             /\ read = getPrice(key) => ev'.invoked = NoInvocation
             /\ (read # Null /\ read # getPrice(key)) =>
                  /\ \A cb \in Callbacks :
                       ev'.invoked[cb] =
                         IF HasListeners(key) /\ cb \in listeners[key] THEN 1 ELSE 0
                  /\ HasListeners(key) => ev'.price = read]_vars

\* a tick has just delivered a changed value to two registered listeners of an
\* OPEN key
C7_Witness ==
  /\ ev.op = "tick"
  /\ IsOpen(ev.key)
  /\ HasListeners(ev.key) /\ listeners[ev.key] = Callbacks
  /\ \A cb \in Callbacks : ev.invoked[cb] = 1
  /\ ev.price = getPrice(ev.key)

(* C8: for one key poll ticks never overlap: at most one tick of the key is *)
(* suspended in its read at any time.                                       *)
C8_TicksSequential ==
  \A k \in Keys : Cardinality(TicksInFlight(k)) <= 1

(* C9: values are written and delivered in the order the ticks were fired:  *)
(* a tick that a later tick of the same key has overtaken with a write      *)
(* writes and delivers nothing itself.                                      *)
C9_DeliveryInPollOrder ==
  [][\A i \in 1..Len(ticks), dom \in DomStates :
       (TickDone(i, dom, FALSE) /\ ticks[i].overtaken) =>
          /\ prices' = prices
          /\ ev'.invoked = NoInvocation]_vars

(* C10: removeTicker with a callback that is not registered for the key     *)
(* changes no listener set, cache entry, tracked page or poll timer and     *)
(* issues no page close.                                                    *)
C10_RemoveUnregisteredIsNoOp ==
  [][\A r \in Requests, cb \in Callbacks :
       LET key == KeyOf(r.ticker, r.exchange) IN
       (RemoveTicker(r.ticker, r.exchange, cb)
          /\ ~(MapHas(listeners, key) /\ cb \in listeners[key])) =>
         /\ UNCHANGED <<listeners, prices, pages, intervalIds, activeTimers,
                        openPages>>
         /\ Len(stopping') = Len(stopping)]_vars


(* C11: addTicker for a key that is OPEN with a cached value starts no      *)
(* source open, registers the callback, returns success and has invoked     *)
(* the callback exactly once, with the cached value, when it returns.       *)
C11_JoinReplaysCachedValue ==
  [][\A r \in Requests, cb \in Callbacks :
       LET key == KeyOf(r.ticker, r.exchange) IN
       (AddTicker(r.ticker, r.exchange, cb, FALSE)
          /\ IsOpen(key) /\ getPrice(key) # Null) =>
         /\ nextId' = nextId
         /\ {c.id : c \in opening'} = {c.id : c \in opening}
         /\ MapHas(listeners', key) /\ cb \in listeners'[key]
         /\ ev'.op = "addJoin" /\ ev'.result = Success
         /\ ev'.invoked = [c \in Callbacks |-> IF c = cb THEN 1 ELSE 0]
         /\ ev'.price = getPrice(key)]_vars
(* C12: when an addTicker call that opened the source returns success, the  *)
(* initial price is cached, the caller's callback is registered, the        *)
(* interval timer of the key is running, and the caller's callback has been *)
(* invoked exactly once, with the initial price, and no other callback has. *)
C12_FirstAddReturnsOpen ==
  [][(ev'.op = "addDone" /\ ev'.result = Success) =>
       \A c \in opening, gotoOk \in BOOLEAN, dom \in DomStates :
         OpenLoaded(c, gotoOk, dom, FALSE) =>
           LET initialPrice == extractPrice(TRUE, dom) IN
           /\ MapHas(prices', c.key) /\ prices'[c.key] = initialPrice
           /\ initialPrice # Null
           /\ MapHas(listeners', c.key) /\ c.cb \in listeners'[c.key]
           /\ MapHas(intervalIds', c.key)
           /\ intervalIds'[c.key] \in activeTimers'
           /\ intervalIds'[c.key].key = c.key
           /\ ev'.invoked = [cb \in Callbacks |-> IF cb = c.cb THEN 1 ELSE 0]
           /\ ev'.price = initialPrice]_vars

\* an opening addTicker has just returned success for a key that is now OPEN
C12_Witness ==
  /\ ev.op = "addDone" /\ ev.result = Success
  /\ IsOpen(ev.key) /\ getPrice(ev.key) = ev.price /\ ev.price # Null
  /\ \E cb \in Registered(ev.key) : ev.invoked[cb] = 1
(* C13: addTicker with a callback that is already registered for the key    *)
(* leaves the listener set as it was; a fan-out invokes a registered        *)
(* callback exactly once; and one removeTicker with the callback leaves it  *)
(* unregistered.                                                            *)
C13_RegisteredOnce ==
  [][/\ \A r \in Requests : \A cb \in Registered(RequestKey[r]) :
          /\ (ev'.op = "addJoin" /\ AddTicker(r.ticker, r.exchange, cb, FALSE))
                => listeners' = listeners
          /\ RemoveTicker(r.ticker, r.exchange, cb)
                => ~(/\ MapHas(listeners', RequestKey[r])
                     /\ cb \in listeners'[RequestKey[r]])
     /\ (ev'.op = "tick" /\ ev'.invoked # NoInvocation) =>
          \A cb \in Callbacks :
            ev'.invoked[cb] = IF cb \in Registered(ev'.key) THEN 1 ELSE 0]_vars

\* addTicker has just returned for a callback that was already the only one
\* registered for its OPEN key (a listener set is empty only while an open of
\* the key is in flight, and none is)
C13_Witness ==
  /\ ev.op = "addJoin" /\ ev.result = Success
  /\ IsOpen(ev.key) /\ ev.key \notin OpeningKeys
  /\ \E cb \in Callbacks : listeners[ev.key] = {cb} /\ ev.invoked[cb] = 1
(* C14: removeTicker of one of several callbacks registered for an OPEN key *)
(* closes nothing: the page, the interval timer and the cached price of the *)
(* key stay, no page close is issued, only that callback leaves the         *)
(* listener set; and a fan-out invokes the callbacks registered when it     *)
(* runs and no other, so the removed callback is not invoked again.         *)
C14_RemoveOneOfTwo ==
  [][/\ \A r \in Requests : \A cb \in Registered(RequestKey[r]) :
          (/\ Registered(RequestKey[r]) # {cb}
           /\ IsOpen(RequestKey[r])
           /\ RemoveTicker(r.ticker, r.exchange, cb)) =>
             /\ UNCHANGED <<pages, openPages, intervalIds, activeTimers,
                            prices, stopping>>
             /\ MapHas(listeners', RequestKey[r])
             /\ listeners'[RequestKey[r]] = listeners[RequestKey[r]] \ {cb}
     /\ \A i \in 1..Len(ticks), dom \in DomStates :
          (ev'.op = "tick" /\ TickDone(i, dom, FALSE)) =>
             \A cb \in Callbacks :
               /\ cb \notin Registered(ticks[i].timer.key) => ev'.invoked[cb] = 0
               /\ (/\ cb \in Registered(ticks[i].timer.key)
                   /\ Changed(ticks[i].timer.key,
                              extractPrice(ticks[i].timer \in openPages, dom)))
                    => ev'.invoked[cb] = 1]_vars

\* removeTicker has just returned after removing one of the two callbacks of
\* an OPEN key: the session, its timer and its cached price are still there
C14_Witness ==
  /\ ev.op = "removeOne" /\ IsOpen(ev.key) /\ getPrice(ev.key) # Null
  /\ \E cb \in Callbacks :
       /\ listeners[ev.key] = {cb}
       /\ delivered[ev.key][cb] = getPrice(ev.key)
  /\ stopping = <<>>
(* C15: when the page close of a teardown fails, the teardown still         *)
(* completes: after the step the key has no interval timer, no tracked page *)
(* and no cached price.                                                     *)
C15_TeardownSurvivesCloseFailure ==
  [][\A i \in 1..Len(stopping), gone \in BOOLEAN :
       StopCloseFailed(i, gone) =>
         LET key == stopping[i].key IN
         /\ ~MapHas(intervalIds', key)
         /\ \A t \in activeTimers' : t.key # key
         /\ ~MapHas(pages', key)
         /\ ~MapHas(prices', key)]_vars
(* C16: every addTicker call settles by resolving to { success: true } or   *)
(* to { success: false, error } with a non-empty error; it never rejects,   *)
(* whether or not the replayed callback throws and whether or not a         *)
(* removeTicker for the key ran while the open was in flight.               *)
C16_AddTickerNeverRejects ==
  (ev.op \in {"addJoin", "addDone"}) =>
    /\ ev.result.settled = "resolved"
    /\ ~ev.result.success => Len(ev.result.error) > 0
\* the state of key k that a step on another key must leave alone
KeyState(k) ==
  <<Registered(k), MapHas(listeners, k), getPrice(k),
    MapHas(pages, k), IF MapHas(pages, k) THEN pages[k] ELSE Null,
    MapHas(intervalIds, k), LivePages(k), LiveTimers(k), delivered[k]>>

(* C17: when a tick fans out a changed price and a callback throws, every   *)
(* callback registered for the key has still been invoked once with the     *)
(* price, the cache holds the new price, the timers run on as before, and   *)
(* nothing of any other key has changed.                                    *)
C17_ThrowingListenerIsolated ==
  [][(ev'.op = "tick" /\ ev'.threw # {}) =>
       \A i \in 1..Len(ticks), dom \in DomStates :
         TickDone(i, dom, TRUE) =>
           LET key == ticks[i].timer.key
               price == extractPrice(ticks[i].timer \in openPages, dom)
           IN  /\ \A cb \in Registered(key) : ev'.invoked[cb] = 1
               /\ ev'.price = price
               /\ MapHas(prices', key) /\ prices'[key] = price
               /\ UNCHANGED <<activeTimers, intervalIds, listeners, pages,
                              openPages, opening, stopping, context>>
               /\ \A k \in Keys \ {key} : KeyState(k)' = KeyState(k)]_vars

\* a tick has just fanned a changed price out to two callbacks of an OPEN
\* key, one of which threw and the other of which was invoked all the same
C17_Witness ==
  /\ ev.op = "tick" /\ IsOpen(ev.key)
  /\ \E cb \in ev.threw : \E other \in listeners[ev.key] \ ev.threw :
       /\ cb \in listeners[ev.key]
       /\ ev.invoked[cb] = 1 /\ ev.invoked[other] = 1
  /\ getPrice(ev.key) = ev.price
(* C18: once cleanup() has completed, no interval timer is running, no page *)
(* is open and no key has a cached price.                                   *)
C18_CleanupTearsDownAll ==
  cleanup.pc = "done" =>
    /\ activeTimers = {}
    /\ openPages = {}
    /\ \A k \in Keys : getPrice(k) = Null
(* C19: whenever a key is OPEN, its cached price is the last price each     *)
(* callback registered for the key was invoked with (a fan-out is one step, *)
(* so none is in progress in any state).                                    *)
C19_CacheIsLastDelivered ==
  \A k \in Keys :
    IsOpen(k) => \A cb \in Registered(k) : delivered[k][cb] = getPrice(k)
(* C20: in every state a key has a cached price only while it has           *)
(* registered listeners, and a key that is OPEN and has registered          *)
(* listeners has a cached price.                                            *)
C20_CacheIffSession ==
  \A k \in Keys :
    /\ getPrice(k) # Null => HasListeners(k)
    /\ (IsOpen(k) /\ HasListeners(k)) => getPrice(k) # Null
(* C21: a poll tick whose read fails or yields no valid value changes no    *)
(* cache entry, no listener set, no page and no timer and invokes no        *)
(* listener: a key that was OPEN is still OPEN and its timer still fires.   *)
C21_FailedReadIsQuiet ==
  [][(ev'.op = "tick" /\ ev'.failed) =>
       /\ UNCHANGED <<prices, listeners, pages, intervalIds, activeTimers,
                      openPages, opening, stopping, delivered>>
       /\ ev'.invoked = NoInvocation
       /\ \A k \in Keys : IsOpen(k) => (IsOpen(k) /\ MayFire(intervalIds[k]))']_vars

\* a tick of an OPEN key with listeners and a cached price has just read
\* nothing valid; the timer of the key is still set
C21_Witness ==
  /\ ev.op = "tick" /\ ev.failed
  /\ IsOpen(ev.key) /\ HasListeners(ev.key) /\ getPrice(ev.key) # Null
  /\ MayFire(intervalIds[ev.key])

\* two strings differ at most in the case of their letters
DifferOnlyInCase(s, t) ==
  /\ Len(s) = Len(t)
  /\ \A i \in 1..Len(s) :
       \/ s[i] = t[i]
       \/ \E j \in 1..Len(LowerChars) : {s[i], t[i]} = {LowerChars[j], UpperChars[j]}

\* a string without lower-case letters
IsUpper(s) ==
  \A i \in 1..Len(s) : \A j \in 1..Len(LowerChars) : s[i] # LowerChars[j]

\* the requests whose (scope, symbol) pair differs from that of request r at
\* most in letter case
SameTarget ==
  [r \in Requests |->
     {q \in Requests : /\ DifferOnlyInCase(q.exchange, r.exchange)
                       /\ DifferOnlyInCase(q.ticker, r.ticker)}]

\* the scope and the symbol of request r, uppercased and joined by ':', when
\* the key of some request is that string
Canonical ==
  [r \in Requests |->
     {k \in Keys : /\ IsUpper(k)
                   /\ DifferOnlyInCase(k, r.exchange \o <<":">> \o r.ticker)}]

CanonicalKeys == UNION {Canonical[r] : r \in Requests}

(* C27: addTicker and removeTicker with (scope, symbol) pairs that differ   *)
(* only in letter case address one key, the uppercased scope and symbol     *)
(* joined by ':'; pairs that differ otherwise share no listener set, cache  *)
(* entry or session; every map, the cache included, is keyed by that key.   *)
C27_CanonicalKey ==
  [][/\ DOMAIN listeners' \cup DOMAIN prices' \cup DOMAIN pages'
          \cup DOMAIN intervalIds' \subseteq CanonicalKeys
     /\ (ev'.op \in {"addJoin", "removeOne"}) =>
          \A r \in Requests, cb \in Callbacks :
            (\/ AddTicker(r.ticker, r.exchange, cb, FALSE)
             \/ RemoveTicker(r.ticker, r.exchange, cb)) =>
              /\ ev'.key \in Canonical[r]
              /\ ev'.op = "addJoin" => ev'.price = getPrice(ev'.key)
              /\ \A q \in Requests :
                   IF q \in SameTarget[r]
                     THEN (cb \in Registered(RequestKey[q])') <=> (ev'.op = "addJoin")
                     ELSE KeyState(RequestKey[q])' = KeyState(RequestKey[q])]_vars

\* addTicker('BT', 'x', cb) has just joined the listener set of key X:BT,
\* which is OPEN and holds both callbacks, and was replayed the cached price
C27_Witness ==
  /\ ev.op = "addJoin"
  /\ ev.asked = << <<"B","T">>, <<"x">> >>
  /\ ev.key = <<"X",":","B","T">>
  /\ IsOpen(ev.key) /\ listeners[ev.key] = Callbacks
  /\ ev.price # Null /\ ev.price = getPrice(ev.key)

(* C28: the cache is updated before the fan-out: a callback that a poll     *)
(* tick invokes with a changed price v for key k gets v from getPrice(k)    *)
(* while it runs, and getPrice(k) returns v after the tick.                 *)
C28_CacheBeforeFanOut ==
  (ev.op = "tick" /\ ev.invoked # NoInvocation) =>
    /\ ev.price # Null
    /\ ev.seen = ev.price
    /\ getPrice(ev.key) = ev.price

\* a tick has just replaced the cached price of an OPEN key and invoked both
\* of its callbacks with the new price
C28_Witness ==
  /\ ev.op = "tick" /\ IsOpen(ev.key)
  /\ listeners[ev.key] = Callbacks
  /\ \A cb \in Callbacks :
       ev.invoked[cb] = 1 /\ delivered[ev.key][cb] = ev.seen
  /\ ev.seen = <<"1","1">> /\ getPrice(ev.key) = <<"1","1">>

(* C29: a call, a resumption or a poll tick of key k1 changes neither the   *)
(* listener set, nor the cache entry, nor the tracked page, nor the poll    *)
(* timer of another key k2: a step that changes any of these for a key is a *)
(* step of no handler of another key.                                       *)
C29_OtherKeysUntouched ==
  [][\A k \in Keys :
       KeyState(k)' # KeyState(k) =>
         /\ \A r \in Requests : RequestKey[r] # k =>
              \A cb \in Callbacks :
                /\ ~AddTicker(r.ticker, r.exchange, cb, FALSE)
                /\ ~RemoveTicker(r.ticker, r.exchange, cb)
         /\ \A c \in opening : c.key # k =>
              /\ ~NewPageDone(c)
              /\ ~OpenFailClosed(c)
              /\ \A gotoOk \in BOOLEAN, dom \in DomStates :
                   ~OpenLoaded(c, gotoOk, dom, FALSE)
         /\ \A i \in 1..Len(stopping) : stopping[i].key # k => ~StopClosed(i)
         /\ \A t \in activeTimers : t.key # k => ~TickFire(t)
         /\ \A i \in 1..Len(ticks) : ticks[i].timer.key # k =>
              \A dom \in DomStates : ~TickDone(i, dom, FALSE)]_vars

\* two keys are OPEN with listeners and different cached prices, and a tick
\* has just delivered a new price for one of them
C29_Witness ==
  /\ ev.op = "tick" /\ ev.invoked # NoInvocation
  /\ \E k \in Keys \ {ev.key} :
       /\ IsOpen(k) /\ HasListeners(k)
       /\ getPrice(k) # Null /\ getPrice(k) # ev.price
  /\ IsOpen(ev.key) /\ getPrice(ev.key) = ev.price

\* key k is ABSENT: no listener set, no cached price, no tracked or live page,
\* no tracked or live timer
Absent(k) ==
  /\ ~MapHas(listeners, k) /\ ~MapHas(prices, k)
  /\ ~MapHas(pages, k) /\ ~MapHas(intervalIds, k)
  /\ LivePages(k) = {} /\ LiveTimers(k) = {}

(* C30: teardown is idempotent: removeTicker for a key without a listener   *)
(* set returns without an error, changes no state and issues no page close; *)
(* and when the last listener of a key goes for which neither a page nor a  *)
(* poll timer exists, stopScrapingTicker changes no state and issues no     *)
(* page close.                                                              *)
C30_TeardownIdempotent ==
  [][(ev'.op \in {"quiet", "removeAgain"}) =>
       \A r \in Requests, cb \in Callbacks :
         RemoveTicker(r.ticker, r.exchange, cb) =>
           /\ ~MapHas(listeners, RequestKey[r]) =>
                /\ UNCHANGED <<listeners, prices, pages, intervalIds,
                               activeTimers, openPages, stopping, ticks,
                               context, delivered>>
                /\ ev'.op = "removeAgain" => ev'.result = ResolvedVoid
           /\ (/\ MapHas(listeners, RequestKey[r])
               /\ LastListenerGone(RequestKey[r], cb)
               /\ ~MapHas(pages, RequestKey[r])
               /\ ~MapHas(intervalIds, RequestKey[r])
               /\ LivePages(RequestKey[r]) = {}
               /\ LiveTimers(RequestKey[r]) = {}) =>
                UNCHANGED <<prices, pages, intervalIds, activeTimers,
                            openPages, stopping, ticks, context>>]_vars

\* removeTicker has just returned for a key that an earlier removeTicker had
\* torn down: the key is ABSENT and no page close is pending
C30_Witness ==
  /\ ev.op = "removeAgain" /\ ev.result = ResolvedVoid
  /\ ev.key \in purged /\ Absent(ev.key)
  /\ stopping = <<>>

\* the SSE clients that have key k in their ticker set
ClientsOf(k) ==
  {c \in DOMAIN server.clients : k \in server.clients[c].tickers}

(* C22: POST /subscribe answers 200 only for a ticker whose validation has  *)
(* found a price; and when the validation of a ticker by the first          *)
(* subscribe for it (no unsubscribe intervening) finds no valid price, the  *)
(* answer is 400 and the ticker is in no client's ticker set, whatever      *)
(* other subscribe requests for it arrived meanwhile.                       *)
C22_InvalidTickerRejected ==
  /\ [](server.out.op = "subscribe" /\ server.out.status = 200
          => getPrice(server.out.key) # Null)
  /\ [][\A c \in opening :
          (c.undisturbed /\ OpenFailClosed(c)) =>
             /\ server'.out.op = "subscribe" /\ server'.out.status = 400
             /\ ClientsOf(c.key)' = {}]_vars

(* C23: when POST /unsubscribe for key k is answered while no subscribe for *)
(* k is in flight, k has no listener left, no page of k is open and no poll *)
(* timer of k is set, whatever subscribe requests for k came before.        *)
C23_UnsubscribeTearsDown ==
  (/\ server.out.op = "unsubscribe" /\ server.out.status = 200
   /\ server.out.key \notin OpeningKeys) =>
    /\ ~HasListeners(server.out.key)
    /\ LivePages(server.out.key) = {}
    /\ LiveTimers(server.out.key) = {}

(* C24: a poll tick writes SSE messages only when it has detected a price   *)
(* change, and then exactly one message to each client that has the key in  *)
(* its ticker set, whatever subscribe requests for the key came before.     *)
C24_OneMessagePerChange ==
  server.out.op = "tick" =>
    \A c \in ClientIds :
      /\ ev.invoked = NoInvocation => server.out.sent[c] = 0
      /\ server.out.sent[c] <= 1
      /\ (ev.invoked # NoInvocation /\ c \in ClientsOf(server.out.key))
            => server.out.sent[c] = 1

(* C25: after the SSE connection of a browser closed and the browser        *)
(* connected again, it is sent the prices of the tickers it had and that    *)
(* were not unsubscribed since, without posting a new subscribe: a price    *)
(* change of such a ticker that a poll tick broadcasts is written to the    *)
(* browser's connection.                                                    *)
C25_ReconnectRestores ==
  (/\ server.out.op = "tick" /\ ev.invoked # NoInvocation
   /\ server.out.key \in server.lost) =>
    \A c \in DOMAIN server.clients :
      server.clients[c].browser = Subscriber => server.out.sent[c] >= 1

(* C26: a price message for a ticker is written only to clients that have   *)
(* subscribed to it: a connection of a browser that posts no subscribe      *)
(* request is written no price message, and a key leaves the ticker set of  *)
(* a connection only by an unsubscribe request of the same browser.         *)
C26_OnlySubscribersAreWritten ==
  /\ [](\A c \in DOMAIN server.clients :
          server.clients[c].browser # Subscriber => server.out.sent[c] = 0)
  /\ [][\A c \in DOMAIN server.clients :
          (/\ c \in DOMAIN server'.clients
           /\ server'.clients[c].tickers # server.clients[c].tickers
           /\ server'.clients[c].tickers \subseteq server.clients[c].tickers) =>
             /\ server'.out.op = "unsubscribe"
             /\ server'.out.by = server.clients[c].browser]_vars

(* C31: shutdown is ordered: when cleanup() closes a page no poll timer is  *)
(* set any more; when it closes the browser context no tracked page is open *)
(* any more; and when it has closed the browser, after which the process    *)
(* exits, the context is closed and no page is open and no timer is set.    *)
C31_ShutdownOrdered ==
  [][/\ \A k \in Keys : CleanupPageClosed(k) => activeTimers = {}
     /\ CleanupContextClosed =>
          \A k \in DOMAIN pages : pages[k] \notin openPages
     /\ CleanupDone =>
          /\ context # "open"
          /\ openPages = {}
          /\ activeTimers = {}]_vars

(* C32: no source page leaks: every page that is open is the page tracked   *)
(* in the pages map under its key; and when the teardown of an old session  *)
(* of a key resumes after its page close, the page entry and the cache      *)
(* entry of a newer session of the key, opened meanwhile, are left alone.   *)
C32_NoPageLeak ==
  /\ [](\A p \in openPages : MapHas(pages, p.key) /\ pages[p.key] = p)
  /\ [][\A i \in 1..Len(stopping) :
          (/\ StopClosed(i)
           /\ MapHas(pages, stopping[i].key)
           /\ pages[stopping[i].key] # stopping[i].page) =>
             /\ MapHas(pages', stopping[i].key)
             /\ pages'[stopping[i].key] = pages[stopping[i].key]
             /\ getPrice(stopping[i].key)' = getPrice(stopping[i].key)]_vars


(* C33: changes are eventually delivered. Whenever the page of key k shows
   something other than v, k stays OPEN with callback cb registered from
   then on, and the page comes to show v and goes on showing it, then (the
   timers firing and the reads succeeding again and again) a time comes
   when the page shows v, the last invocation of cb carried v and
   getPrice(k) returns v.                                                 *)
C33_ChangesDelivered ==
  \A k \in QuotedKeys, cb \in Callbacks, v \in SourceValues :
    []((/\ source[k] # v
        /\ [](IsOpen(k) /\ cb \in Registered(k))
        /\ <>[](source[k] = v))
         => <>(source[k] = v /\ delivered[k][cb] = v /\ getPrice(k) = v))

====
